---- MODULE Spec2Model ----
(***************************************************************************)
(* Model of scripts/generate_daily_set.py: the text normalizers, the rule  *)
(* validator (enforce_letter_constraint, enforce_answer_not_in_question,   *)
(* validate_set) and the repair loop of main().                            *)
(*                                                                         *)
(* A Python str is a sequence of characters.  A character is written as a  *)
(* short ASCII token:                                                      *)
(*   "a".."z", "A".."Z", "0", "1", "_", ":", "!", " "   themselves         *)
(*   "a'" "A'" "e'" "E'" "o'" "O'"   precomposed U+00E1 U+00C1 U+00E9 ...   *)
(*   "n~" "N~"                       precomposed U+00F1, U+00D1 (enye)      *)
(*   "'"  "~"                        combining U+0301, U+0303 (category Mn) *)
(***************************************************************************)
EXTENDS Integers, Sequences, FiniteSets, TLC

VARIABLES
  mode,      \* which part of the program the behaviour exercises
  ns,        \* normalizer input string
  nt,        \* a second string, obtained from ns by edits
  nedits,    \* number of edits applied to nt
  nkind,     \* set of edit kinds applied so far
  nout,      \* results of the last normalizer application
  lletter,   \* enforce_letter_constraint: the letter argument
  lq,        \* ... the question argument
  la,        \* ... the answer argument
  lres,      \* ... its outcome ("" before the call)
  vobj,      \* validate_set: the object given to it
  vfaults,   \* ... the faults put into the object
  vres,      \* ... its outcome ("" before the call)
  pc,        \* main: the statement the repair loop is at
  attempt,   \* main: the loop variable (0 before the first pass)
  obj,       \* main: the candidate, None before the generator has returned
  obj2,      \* main: what the fixer returned in this pass
  last_err,  \* main: the last error caught
  err,       \* the exception in flight, "" when there is none
  reason,    \* the error the fatal RuntimeError carries
  written,   \* the objects write_set was called with, in order
  calls,     \* number of generator and of fixer calls made
  passlog    \* history: what each pass did

nvars == <<ns, nt, nedits, nkind, nout>>

lvars == <<lletter, lq, la, lres>>

vvars == <<vobj, vfaults, vres>>

mvars == <<pc, attempt, obj, obj2, last_err, err, reason, written, calls, passlog>>

vars == <<mode, nvars, lvars, vvars, mvars>>

\* the variables of the parts a behaviour does not exercise
IdleNorm ==
  /\ ns = <<>> /\ nt = <<>> /\ nedits = 0 /\ nkind = {}
  /\ nout = [phase |-> "init", once |-> <<>>, twice |-> <<>>, leak |-> ""]

IdleLetter == lletter = <<>> /\ lq = <<>> /\ la = <<>> /\ lres = ""

IdleValidate == vobj = <<>> /\ vfaults = {} /\ vres = ""

IdleMain ==
  /\ pc = "idle" /\ attempt = 0 /\ obj = <<>> /\ obj2 = <<>>
  /\ last_err = "" /\ err = "" /\ reason = "" /\ written = <<>>
  /\ calls = <<>> /\ passlog = <<>>

----------------------------------------------------------------------------
(* Characters                                                              *)

LowerAscii == <<"a","b","c","d","e","f","g","h","i","j","k","l","m",
                "n","o","p","q","r","s","t","u","v","w","x","y","z">>

UpperAscii == <<"A","B","C","D","E","F","G","H","I","J","K","L","M",
                "N","O","P","Q","R","S","T","U","V","W","X","Y","Z">>

LowerPre == <<"a'", "e'", "o'", "n~">>

UpperPre == <<"A'", "E'", "O'", "N~">>

\* base letter of each precomposed character and its combining mark
PreBase == <<"a", "e", "o", "n">>

PreMark == <<"'", "'", "'", "~">>

Range(f) == {f[i] : i \in DOMAIN f}

IndexOf(seq, c) == CHOOSE i \in DOMAIN seq : seq[i] = c

LowerSet == Range(LowerAscii) \cup Range(LowerPre)

UpperSet == Range(UpperAscii) \cup Range(UpperPre)

Marks == {"'", "~"}

Digits == {"0", "1"}

Whitespace == {" "}

Letters == LowerSet \cup UpperSet

Chars == Letters \cup Marks \cup Digits \cup Whitespace \cup {"_", ":", "!"}

\* str.upper() / str.lower() on one character
UpperMap ==
  [c \in Chars |->
     IF c \in Range(LowerAscii) THEN UpperAscii[IndexOf(LowerAscii, c)]
     ELSE IF c \in Range(LowerPre) THEN UpperPre[IndexOf(LowerPre, c)]
     ELSE c]

LowerMap ==
  [c \in Chars |->
     IF c \in Range(UpperAscii) THEN LowerAscii[IndexOf(UpperAscii, c)]
     ELSE IF c \in Range(UpperPre) THEN LowerPre[IndexOf(UpperPre, c)]
     ELSE c]

UpperChar(c) == UpperMap[c]

LowerChar(c) == LowerMap[c]

upper(s) == [i \in DOMAIN s |-> UpperChar(s[i])]

lower(s) == [i \in DOMAIN s |-> LowerChar(s[i])]

\* unicodedata.normalize("NFD", c) for one character
NFDMap ==
  [c \in Chars |->
     IF c \in Range(LowerPre)
       THEN <<PreBase[IndexOf(LowerPre, c)], PreMark[IndexOf(LowerPre, c)]>>
     ELSE IF c \in Range(UpperPre)
       THEN <<UpperMap[PreBase[IndexOf(UpperPre, c)]], PreMark[IndexOf(UpperPre, c)]>>
     ELSE <<c>>]

NFDChar(c) == NFDMap[c]

RECURSIVE NFD(_)
NFD(s) == IF s = <<>> THEN <<>> ELSE NFDChar(Head(s)) \o NFD(Tail(s))

\* unicodedata.category(c) == "Mn"
IsMn(c) == c \in Marks

\* regex \s and \w (re.UNICODE) on one character
IsSpace(c) == c \in Whitespace

WordChars == Letters \cup Digits \cup {"_"}

IsWord(c) == c \in WordChars

----------------------------------------------------------------------------
(* str methods                                                             *)

RECURSIVE lstrip(_)
lstrip(s) == IF s # <<>> /\ IsSpace(Head(s)) THEN lstrip(Tail(s)) ELSE s

RECURSIVE rstrip(_)
rstrip(s) ==
  IF s # <<>> /\ IsSpace(s[Len(s)]) THEN rstrip(SubSeq(s, 1, Len(s) - 1)) ELSE s

strip(s) == rstrip(lstrip(s))

IsPrefix(p, s) == Len(p) <= Len(s) /\ SubSeq(s, 1, Len(p)) = p

\* str.replace(old, new): leftmost non-overlapping occurrences, old non-empty
RECURSIVE replace(_, _, _)
replace(s, old, new) ==
  IF Len(s) < Len(old) THEN s
  ELSE IF IsPrefix(old, s)
    THEN new \o replace(SubSeq(s, Len(old) + 1, Len(s)), old, new)
  ELSE <<Head(s)>> \o replace(Tail(s), old, new)

\* the Python operator `a in b` on strings
Contains(a, b) ==
  \E i \in 0..(Len(b) - Len(a)) : SubSeq(b, i + 1, i + Len(a)) = a

----------------------------------------------------------------------------
(* Text normalizer                                                         *)

RECURSIVE DropMn(_)
DropMn(s) ==
  IF s = <<>> THEN <<>>
  ELSE IF IsMn(Head(s)) THEN DropMn(Tail(s))
  ELSE <<Head(s)>> \o DropMn(Tail(s))

\* a faulty variant: it filters the marks before it decomposes
strip_accents_swapped(s) == NFD(DropMn(s))

strip_accents(s) == DropMn(NFD(s))

ENYE == <<"_", "_", "E", "N", "Y", "E", "_", "_">>

\* a faulty variant: it drops the placeholder protection of the enye
normalize_for_letter_check_noenye(s) == strip_accents(strip(s))

normalize_for_letter_check(s) ==
  LET s1 == strip(s)
      s2 == replace(s1, <<"n~">>, <<"N~">>)
      s3 == replace(s2, <<"N~">>, ENYE)
      s4 == strip_accents(s3)
  IN  replace(s4, ENYE, <<"N~">>)

\* re.sub(r"[^\w\s]", " ", s)
SubNonWord(s) ==
  [i \in DOMAIN s |-> IF IsWord(s[i]) \/ IsSpace(s[i]) THEN s[i] ELSE " "]

\* re.sub(r"\s+", " ", s)
RECURSIVE CollapseSpace(_)
CollapseSpace(s) ==
  IF s = <<>> THEN <<>>
  ELSE IF IsSpace(Head(s))
    THEN <<" ">> \o CollapseSpace(lstrip(s))
  ELSE <<Head(s)>> \o CollapseSpace(Tail(s))

\* a faulty variant: it forgets to fold the case
normalize_for_contains_check_nolower(s) ==
  LET s2 == replace(s, <<"n~">>, <<"n">>)
      s3 == strip_accents(s2)
      s4 == SubNonWord(s3)
  IN  strip(CollapseSpace(s4))

normalize_for_contains_check(s) ==
  LET s1 == lower(s)
      s2 == replace(s1, <<"n~">>, <<"n">>)
      s3 == strip_accents(s2)
      s4 == SubNonWord(s3)
  IN  strip(CollapseSpace(s4))

----------------------------------------------------------------------------
(* Strict normalization applied twice                                      *)

MaxStrictLen == 3

StrictAlphabet == {"a", "a'", "n~", "N~", " ", "'"}

StringsUpTo(S, n) == UNION {[1..k -> S] : k \in 0..n}

\* strings that spell the private placeholder, or a decomposed enye
StrictExtras ==
  { ENYE,
    <<"_", "_", "E", "N", "Y", "E'", "_", "_">>,
    <<"a", "_", "_", "E", "N", "Y", "E", "_", "_", " ">>,
    <<"n", "~", "a">>,
    <<"~", " ", "N~">> }

StrictInputs == StringsUpTo(StrictAlphabet, MaxStrictLen) \cup StrictExtras

NoResult == [phase |-> "init", once |-> <<>>, twice |-> <<>>, leak |-> ""]

InitStrict ==
  /\ mode = "strict"
  /\ ns \in StrictInputs
  /\ nt = <<>>
  /\ nedits = 0
  /\ nkind = {}
  /\ nout = NoResult
  /\ IdleLetter
  /\ IdleValidate
  /\ IdleMain

\* once = normalize_for_letter_check(s)
ApplyStrict ==
  /\ mode = "strict"
  /\ nout.phase = "init"
  /\ nout' = [nout EXCEPT !.phase = "once",
                          !.once = normalize_for_letter_check(ns)]
  /\ UNCHANGED <<mode, ns, nt, nedits, nkind, lvars, vvars, mvars>>

\* twice = normalize_for_letter_check(once)
ApplyStrictAgain ==
  /\ mode = "strict"
  /\ nout.phase = "once"
  /\ nout' = [nout EXCEPT !.phase = "twice",
                          !.twice = normalize_for_letter_check(nout.once)]
  /\ UNCHANGED <<mode, ns, nt, nedits, nkind, lvars, vvars, mvars>>

NextStrict == ApplyStrict \/ ApplyStrictAgain

SpecStrict == InitStrict /\ [][NextStrict]_vars

\* After trimming, removing the combining marks exposes no leading or
\* trailing whitespace.
WellFormed(s) == LET y == DropMn(strip(s)) IN strip(y) = y

\* C7 (as stated): strict normalization is idempotent for every string,
\* also when a combining mark is adjacent to leading or trailing whitespace.
C7_IdempotentAll == nout.phase = "twice" => nout.twice = nout.once

\* C7 (amended): strict normalization is idempotent for every string in
\* which, after trimming, no run of standalone combining marks at either end
\* is separated from the rest of the text by whitespace.
C7_IdempotentWellFormed ==
  (nout.phase = "twice" /\ WellFormed(ns)) => nout.twice = nout.once

\* a well-formed input with whitespace, a standalone mark and an enye, which
\* normalization changes
C7_Witness ==
  /\ nout.phase = "twice"
  /\ WellFormed(ns)
  /\ \E i \in DOMAIN ns : ns[i] = " "
  /\ \E i \in DOMAIN ns : ns[i] = "'"
  /\ \E i \in DOMAIN ns : ns[i] = "n~"
  /\ nout.once # ns
  /\ nout.twice = nout.once

----------------------------------------------------------------------------
(* Rule validator: answer leakage.  A check returns "ok" or the message of *)
(* the ValueError it raises.                                               *)

OK == "ok"

ErrLeak == "Answer must not be contained in the question."

enforce_answer_not_in_question(question, answer) ==
  LET q_norm == normalize_for_contains_check(question)
      a_norm == normalize_for_contains_check(answer)
  IN  IF a_norm # <<>> /\ Contains(a_norm, q_norm) THEN ErrLeak ELSE OK

----------------------------------------------------------------------------
(* Loose normalization of two strings that differ in case, accents or      *)
(* punctuation: nt is obtained from ns by edits.                           *)

MaxLooseLen == 2

MaxEdits == 2

LooseAlphabet == {"a", "N~", " ", "!"}

LooseInputs == StringsUpTo(LooseAlphabet, MaxLooseLen)

Punctuation == {"!", "_"}

InsertAt(s, i, c) == SubSeq(s, 1, i) \o <<c>> \o SubSeq(s, i + 1, Len(s))

DeleteAt(s, i) == SubSeq(s, 1, i - 1) \o SubSeq(s, i + 1, Len(s))

\* the gap after position i of s lies between two word characters
\* (combining marks belong to the character before them)
InWord(s, i) ==
  LET left  == {j \in 1..i : ~IsMn(s[j])}
      right == {j \in (i + 1)..Len(s) : ~IsMn(s[j])}
  IN  /\ left # {} /\ right # {}
      /\ IsWord(s[CHOOSE j \in left : \A k \in left : k <= j])
      /\ IsWord(s[CHOOSE j \in right : \A k \in right : j <= k])

PunctKind(s, i, c) ==
  IF c = "_" THEN "underscore" ELSE IF InWord(s, i) THEN "inword" ELSE "punct"

\* the accent toggled on a letter that has a precomposed form
ToggleAccent(c) ==
  IF c \in Range(LowerPre) THEN PreBase[IndexOf(LowerPre, c)]
  ELSE IF c \in Range(UpperPre) THEN UpperChar(PreBase[IndexOf(UpperPre, c)])
  ELSE IF c \in Range(PreBase) THEN LowerPre[IndexOf(PreBase, c)]
  ELSE IF LowerChar(c) \in Range(PreBase) /\ c # LowerChar(c)
    THEN UpperPre[IndexOf(PreBase, LowerChar(c))]
  ELSE c

InitLoose ==
  /\ mode = "loose"
  /\ ns \in LooseInputs
  /\ nt = ns
  /\ nedits = 0
  /\ nkind = {}
  /\ nout = NoResult
  /\ IdleLetter
  /\ IdleValidate
  /\ IdleMain

Edited(t, kind) ==
  /\ mode = "loose"
  /\ nout.phase = "init"
  /\ nedits < MaxEdits
  /\ nt' = t
  /\ nedits' = nedits + 1
  /\ nkind' = nkind \cup {kind}
  /\ UNCHANGED <<mode, ns, nout, lvars, vvars, mvars>>

ChangeCase ==
  \E i \in DOMAIN nt :
    /\ UpperChar(nt[i]) # LowerChar(nt[i])
    /\ Edited([nt EXCEPT ![i] = IF nt[i] = UpperChar(nt[i])
                                  THEN LowerChar(nt[i]) ELSE UpperChar(nt[i])],
              "case")

ChangeAccent ==
  \E i \in DOMAIN nt :
    /\ ToggleAccent(nt[i]) # nt[i]
    /\ Edited([nt EXCEPT ![i] = ToggleAccent(nt[i])], "accent")

\* a combining mark put on the letter at position i
AddMark ==
  \E i \in DOMAIN nt :
    /\ nt[i] \in Letters
    /\ Edited(InsertAt(nt, i, "'"), "accent")

RemoveMark ==
  \E i \in DOMAIN nt :
    /\ IsMn(nt[i])
    /\ Edited(DeleteAt(nt, i), "accent")

InsertPunct ==
  \E i \in 0..Len(nt), c \in Punctuation :
    Edited(InsertAt(nt, i, c), PunctKind(nt, i, c))

DeletePunct ==
  \E i \in DOMAIN nt :
    /\ nt[i] \in Punctuation
    /\ Edited(DeleteAt(nt, i), PunctKind(DeleteAt(nt, i), i - 1, nt[i]))

\* the question quotes nt; the answer is ns
QuestionWith(t) == <<"q", ":", " ">> \o t \o <<" ", "z">>

ApplyLoose ==
  /\ mode = "loose"
  /\ nout.phase = "init"
  /\ nout' = [phase |-> "done",
              once  |-> normalize_for_contains_check(ns),
              twice |-> normalize_for_contains_check(nt),
              leak  |-> enforce_answer_not_in_question(QuestionWith(nt), ns)]
  /\ UNCHANGED <<mode, ns, nt, nedits, nkind, lvars, vvars, mvars>>

NextLoose ==
  \/ ChangeCase
  \/ ChangeAccent
  \/ AddMark
  \/ RemoveMark
  \/ InsertPunct
  \/ DeletePunct
  \/ ApplyLoose

SpecLoose == InitLoose /\ [][NextLoose]_vars

\* C8 (as stated): two strings that differ only in case, accents or
\* punctuation, wherever the punctuation is inserted or deleted (also inside
\* a word), have the same loose normalization, and an answer (one with a
\* non-empty loose form) is rejected when the question holds it in such a
\* variant.  The underscore is left aside here: the formula is already
\* violated by the other punctuation characters.
C8_LooseEqualAll ==
  (nout.phase = "done" /\ "underscore" \notin nkind) =>
    /\ nout.once = nout.twice
    /\ (nout.once # <<>> => nout.leak = ErrLeak)

\* C8 (amended): the same, when every inserted or deleted punctuation
\* character is other than the underscore and does not stand between two
\* word characters.
C8_LooseEqualOutsideWords ==
  (nout.phase = "done" /\ nkind \cap {"inword", "underscore"} = {}) =>
    /\ nout.once = nout.twice
    /\ (nout.once # <<>> => nout.leak = ErrLeak)

C8_Witness ==
  /\ nout.phase = "done"
  /\ nkind \cap {"inword", "underscore"} = {}
  /\ "punct" \in nkind
  /\ Cardinality(nkind) = 2
  /\ nt # ns
  /\ nout.once = nout.twice
  /\ nout.once # <<>>
  /\ nout.leak = ErrLeak

----------------------------------------------------------------------------
(* Rule validator: the letter constraint                                   *)

ErrEmpty == "Empty question/answer"

ErrPrefix == "Question must start with 'Empieza por X:' or 'Contiene la X:'."

ErrQLetter == "Question letter mismatch."

ErrStart == "Answer must start with letter."

ErrContain == "Answer must contain letter."

Empieza == <<"E", "m", "p", "i", "e", "z", "a">>

Por == <<"p", "o", "r">>

Contiene == <<"C", "o", "n", "t", "i", "e", "n", "e">>

La == <<"l", "a">>

\* position of the first character of s at or after i that is no whitespace
RECURSIVE SkipSpace(_, _)
SkipSpace(s, i) ==
  IF i <= Len(s) /\ IsSpace(s[i]) THEN SkipSpace(s, i + 1) ELSE i

\* a literal word of the pattern at position i, under re.IGNORECASE
WordAt(s, i, w) ==
  /\ i + Len(w) - 1 <= Len(s)
  /\ lower(SubSeq(s, i, i + Len(w) - 1)) = lower(w)

\* the class [A-Z\u00D1] under re.IGNORECASE
LetterClass == Range(UpperAscii) \cup Range(LowerAscii) \cup {"N~", "n~"}

InLetterClass(c) ==
  c \in LetterClass

\* re.match(r"^\s*W1\s+W2\s+([A-Z\u00D1])\s*:\s*", s, re.IGNORECASE):
\* the text of group 1, or <<>> when there is no match
MatchPrefix(s, w1, w2) ==
  LET i1 == SkipSpace(s, 1)
      i2 == i1 + Len(w1)
      i3 == SkipSpace(s, i2)
      i4 == i3 + Len(w2)
      i5 == SkipSpace(s, i4)
      i6 == SkipSpace(s, i5 + 1)
  IN  IF /\ WordAt(s, i1, w1)
         /\ i3 > i2
         /\ WordAt(s, i3, w2)
         /\ i5 > i4
         /\ i5 <= Len(s) /\ InLetterClass(s[i5])
         /\ i6 <= Len(s) /\ s[i6] = ":"
      THEN <<s[i5]>>
      ELSE <<>>

enforce_letter_constraint(letter, question, answer) ==
  LET q        == strip(question)
      a        == strip(answer)
      m_emp    == MatchPrefix(q, Empieza, Por)
      m_con    == MatchPrefix(q, Contiene, La)
      q_letter == upper(IF m_emp # <<>> THEN m_emp ELSE m_con)
      a_norm   == normalize_for_letter_check(a)
      first    == upper(IF a_norm = <<>> THEN <<>> ELSE <<a_norm[1]>>)
  IN  IF q = <<>> \/ a = <<>> THEN ErrEmpty
      ELSE IF m_emp = <<>> /\ m_con = <<>> THEN ErrPrefix
      ELSE IF q_letter # letter THEN ErrQLetter
      ELSE IF m_emp # <<>>
        THEN (IF first # letter THEN ErrStart ELSE OK)
      ELSE IF ~Contains(letter, upper(a_norm)) THEN ErrContain
      ELSE OK

----------------------------------------------------------------------------
(* JSON values.  json.loads yields a dict, a list, a str, a number or None; *)
(* every value is a record with its type tag t, so that values of          *)
(* different types can be compared.  dict.get of a missing key is None.    *)

JStr(s) == [t |-> "str", v |-> s]

JNull == [t |-> "null", v |-> <<>>]

JNum == [t |-> "num", v |-> <<>>]

JList(es) == [t |-> "list", v |-> es]

\* an entry of "questions": a dict with the three keys, or another value
JEntry(letter, question, answer) ==
  [t |-> "dict", letter |-> letter, question |-> question, answer |-> answer]

JOther(tag) ==
  [t |-> tag, letter |-> JNull, question |-> JNull, answer |-> JNull]

\* the candidate set: a dict, or another JSON value (None included)
JSet(id, title, questions) ==
  [t |-> "dict", id |-> id, title |-> title, questions |-> questions]

JNotSet(tag) ==
  [t |-> tag, id |-> JNull, title |-> JNull, questions |-> JNull]

None == JNotSet("null")

----------------------------------------------------------------------------
(* Rule validator: validate_set                                            *)

LETTERS ==
  << <<"A">>, <<"B">>, <<"C">>, <<"D">>, <<"E">>, <<"F">>, <<"G">>, <<"H">>,
     <<"I">>, <<"J">>, <<"L">>, <<"M">>, <<"N">>, <<"N~">>, <<"O">>, <<"P">>,
     <<"Q">>, <<"R">>, <<"S">>, <<"T">>, <<"U">>, <<"V">>, <<"X">>, <<"Y">>,
     <<"Z">> >>

SetId == <<"s", "e", "t", "_", "0", "1">>

ErrId == "Expected id 'set_01'"

ErrTitle == "Missing/invalid title"

ErrLength == "Expected questions length"

ErrLetters == "Letters mismatch."

ErrEntryObject == "Each question entry must be an object"

ErrEntryTypes == "Each entry must have string letter/question/answer"

ErrDuplicate == "Duplicate answer detected"

\* q.get(...) on a value that is no dict, obj.get(...) on a value that is no
\* dict: not a ValueError of the validator
ErrAttribute == "AttributeError: object has no attribute 'get'"

\* the body of `for q in qs`, from entry i on, with the answers seen so far
RECURSIVE ValidateEntries(_, _, _)
ValidateEntries(qs, i, seen_answers) ==
  IF i > Len(qs) THEN OK
  ELSE
    LET q        == qs[i]
        letter   == q.letter
        question == q.question
        answer   == q.answer
        ans_key  == lower(strip(normalize_for_letter_check(answer.v)))
        r1       == enforce_letter_constraint(letter.v, question.v, answer.v)
        r2       == enforce_answer_not_in_question(question.v, answer.v)
    IN  IF q.t # "dict" THEN ErrEntryObject
        ELSE IF question.t # "str" \/ answer.t # "str" \/ letter.t # "str"
          THEN ErrEntryTypes
        ELSE IF ans_key \in seen_answers THEN ErrDuplicate
        ELSE IF r1 # OK THEN r1
        ELSE IF r2 # OK THEN r2
        ELSE ValidateEntries(qs, i + 1, seen_answers \cup {ans_key})

validate_set(o) ==
  LET title == o.title
      qs    == o.questions
  IN  IF o.t # "dict" THEN ErrAttribute
      ELSE IF o.id # JStr(SetId) THEN ErrId
      ELSE IF title.t # "str" \/ strip(title.v) = <<>> THEN ErrTitle
      ELSE IF qs.t # "list" \/ Len(qs.v) # Len(LETTERS) THEN ErrLength
      ELSE IF \E i \in DOMAIN qs.v : qs.v[i].t # "dict" THEN ErrAttribute
      ELSE IF [i \in DOMAIN qs.v |-> qs.v[i].letter]
                # [i \in DOMAIN LETTERS |-> JStr(LETTERS[i])]
        THEN ErrLetters
      ELSE ValidateEntries(qs.v, 1, {})

----------------------------------------------------------------------------
(* enforce_letter_constraint on bounded inputs                             *)

MaxAnsLen == 2

LetterArgs == {<<"A">>, <<"N">>, <<"N~">>, <<"a">>}

Spaces(k) == [i \in 1..k |-> " "]

\* W1 W2 X: body, with g1, g2 spaces after the words and g3 before the colon
MakeQuestion(lead, w1, g1, w2, g2, x, g3, colon) ==
  lead \o w1 \o Spaces(g1) \o w2 \o Spaces(g2) \o x \o Spaces(g3)
       \o colon \o <<" ", "q">>

PrefixWords ==
  { <<Empieza, Por>>, <<upper(Empieza), Por>>,
    <<Contiene, La>>, <<lower(Contiene), upper(La)>>,
    <<Empieza, La>> }

QuestionLetters == {"A", "a", "N", "n~", "N~", "A'", "1"}

QuestionInputs ==
  { MakeQuestion(<<>>, w[1], 1, w[2], 1, <<x>>, 0, <<":">>) :
      w \in PrefixWords, x \in QuestionLetters }
  \cup
  { MakeQuestion(v[1], w[1], v[2], w[2], v[3], <<x>>, v[4], v[5]) :
      w \in {<<Empieza, Por>>, <<Contiene, La>>},
      x \in {"A"},
      v \in { << <<" ">>, 1, 1, 0, <<":">> >>,
              << <<>>, 2, 1, 0, <<":">> >>,
              << <<>>, 1, 2, 0, <<":">> >>,
              << <<>>, 0, 1, 0, <<":">> >>,
              << <<>>, 1, 0, 0, <<":">> >>,
              << <<>>, 1, 1, 1, <<":">> >>,
              << <<>>, 1, 1, 0, <<>> >> } }
  \cup { <<>>, <<" ">> }

AnswerAlphabet == {"a", "A'", "n", "n~", " ", "'"}

AnswerInputs ==
  StringsUpTo(AnswerAlphabet, MaxAnsLen)
  \cup { <<"A'", "g", "u", "i", "l", "a">>,
         <<"C", "o'", "n", "d", "o", "r">>,
         <<"N~", "u">>,
         <<"n", "~", "u">>,
         <<"c", "a", "n~", "a">>,
         <<"c", "a", "n", "a">> }

InitLetter ==
  /\ mode = "letter"
  /\ IdleNorm
  /\ lletter \in LetterArgs
  /\ lq \in QuestionInputs
  /\ la \in AnswerInputs
  /\ lres = ""
  /\ IdleValidate
  /\ IdleMain

Enforce ==
  /\ mode = "letter"
  /\ lres = ""
  /\ lres' = enforce_letter_constraint(lletter, lq, la)
  /\ UNCHANGED <<mode, nvars, lletter, lq, la, vvars, mvars>>

NextLetter == Enforce

SpecLetter == InitLetter /\ [][NextLetter]_vars

\* q begins, case-insensitively and up to the amount of whitespace the
\* pattern allows, with "w1 w2 X:" for a single letter X whose upper case is
\* the given letter
BeginsWith(q, w1, w2, letter) ==
  \E g1 \in 1..Len(q), g2 \in 1..Len(q) :
    LET k == Len(w1) + g1 + Len(w2) + g2 + 1
    IN  /\ k <= Len(q)
        /\ q[k] \in Letters
        /\ <<UpperChar(q[k])>> = letter
        /\ lower(SubSeq(q, 1, k - 1))
             = lower(w1 \o Spaces(g1) \o w2 \o Spaces(g2))
        /\ \E g3 \in 0..Len(q) :
             IsPrefix(Spaces(g3) \o <<":">>, SubSeq(q, k + 1, Len(q)))

\* the conditions under which the claim says the check passes
LetterAccepts(letter, question, answer) ==
  LET q      == strip(question)
      a_norm == upper(normalize_for_letter_check(answer))
  IN  /\ q # <<>>
      /\ strip(answer) # <<>>
      /\ \/ /\ BeginsWith(q, Empieza, Por, letter)
            /\ a_norm # <<>>
            /\ <<a_norm[1]>> = letter
         \/ /\ BeginsWith(q, Contiene, La, letter)
            /\ Contains(letter, a_norm)

CanonQuestion(w1, w2, letter) ==
  MakeQuestion(<<>>, w1, 1, w2, 1, letter, 0, <<":">>)

FirstOf(s) == IF strip(s) = <<>> THEN "" ELSE strip(s)[1]

----------------------------------------------------------------------------
(* validate_set on a valid set with faults put into it                     *)

MaxFaults == 2

MaxPos == 3

Title == <<"P", "a", "s", "a", "l", "a", "c", "a", "b", "r", "a">>

\* "Empieza por X: q" answered "Xk"
BaseEntry(i) ==
  JEntry(JStr(LETTERS[i]),
         JStr(CanonQuestion(Empieza, Por, LETTERS[i])),
         JStr(LETTERS[i] \o <<"k">>))

BaseSet ==
  JSet(JStr(SetId), JStr(Title), JList([i \in DOMAIN LETTERS |-> BaseEntry(i)]))

InitValidate ==
  /\ mode = "validate"
  /\ IdleNorm
  /\ IdleLetter
  /\ vobj = BaseSet
  /\ vfaults = {}
  /\ vres = ""
  /\ IdleMain

Fault(o, name) ==
  /\ mode = "validate"
  /\ vres = ""
  /\ Cardinality(vfaults) < MaxFaults
  /\ vobj.questions.t = "list"
  /\ vobj' = o
  /\ vfaults' = vfaults \cup {name}
  /\ UNCHANGED <<mode, nvars, lvars, vres, mvars>>

WithEntry(o, i, e) == [o EXCEPT !.questions.v[i] = e]

Entry(i) == vobj.questions.v[i]

Positions == {i \in 1..MaxPos : i <= Len(vobj.questions.v)}

FaultId ==
  \E x \in {JNull, JStr(<<"s", "e", "t">>)} :
    Fault([vobj EXCEPT !.id = x], "id")

FaultTitle ==
  \E x \in {JNull, JNum, JStr(<<" ">>)} :
    Fault([vobj EXCEPT !.title = x], "title")

FaultLength ==
  \/ Fault([vobj EXCEPT !.questions = JNull], "length")
  \/ /\ vobj.questions.t = "list" /\ vobj.questions.v # <<>>
     /\ Fault([vobj EXCEPT !.questions.v =
                  SubSeq(vobj.questions.v, 1, Len(vobj.questions.v) - 1)],
              "length")

\* two entries change places
FaultPermute ==
  \E i \in Positions, j \in Positions :
    /\ i < j
    /\ Fault([vobj EXCEPT !.questions.v[i] = Entry(j),
                          !.questions.v[j] = Entry(i)], "permute")

\* an entry that is a JSON string, or null, instead of an object
FaultNotObject ==
  \E i \in Positions, tag \in {"str", "null"} :
    Fault(WithEntry(vobj, i, JOther(tag)), "notobject")

FaultFieldType ==
  \E i \in Positions :
    /\ Entry(i).t = "dict"
    /\ \/ Fault(WithEntry(vobj, i, [Entry(i) EXCEPT !.letter = JNum]), "lettertype")
       \/ Fault(WithEntry(vobj, i, [Entry(i) EXCEPT !.question = JNull]), "fieldtype")
       \/ Fault(WithEntry(vobj, i, [Entry(i) EXCEPT !.answer = JNum]), "fieldtype")

\* entry j repeats the answer of entry i up to case and accents, and both
\* keep their letter constraint: "XYk" starts with X, "x'yk" contains Y
FaultDuplicate ==
  \E i \in Positions, j \in Positions :
    /\ i < j
    /\ LET a == <<"A">> \o LETTERS[j] \o <<"k">>
       IN  Fault([vobj EXCEPT
                    !.questions.v[i] =
                       JEntry(JStr(LETTERS[i]),
                              JStr(CanonQuestion(Contiene, La, LETTERS[i])),
                              JStr(LETTERS[i] \o a)),
                    !.questions.v[j] =
                       JEntry(JStr(LETTERS[j]),
                              JStr(CanonQuestion(Contiene, La, LETTERS[j])),
                              JStr(lower(LETTERS[i]) \o <<"a'">> \o lower(LETTERS[j]) \o <<"k">>))],
                 "duplicate")

FaultAnswer ==
  \E i \in Positions :
    /\ Entry(i).t = "dict"
    /\ \/ Fault(WithEntry(vobj, i, [Entry(i) EXCEPT !.answer = JStr(<<"k", "k">>)]), "start")
       \/ Fault(WithEntry(vobj, i, [Entry(i) EXCEPT !.answer = JStr(<<" ">>)]), "empty")
       \/ Fault(WithEntry(vobj, i, [Entry(i) EXCEPT !.answer = JStr(LETTERS[i])]), "leak")

FaultQuestion ==
  \E i \in Positions :
    /\ Entry(i).t = "dict"
    /\ \/ Fault(WithEntry(vobj, i, [Entry(i) EXCEPT !.question = JStr(<<"q">>)]), "prefix")
       \/ Fault(WithEntry(vobj, i, [Entry(i) EXCEPT !.question =
                   JStr(CanonQuestion(Empieza, Por, <<"Z">>))]), "qletter")

Validate ==
  /\ mode = "validate"
  /\ vres = ""
  /\ vres' = validate_set(vobj)
  /\ UNCHANGED <<mode, nvars, lvars, vobj, vfaults, mvars>>

NextValidate ==
  \/ FaultId
  \/ FaultTitle
  \/ FaultLength
  \/ FaultPermute
  \/ FaultNotObject
  \/ FaultFieldType
  \/ FaultDuplicate
  \/ FaultAnswer
  \/ FaultQuestion
  \/ Validate

SpecValidate == InitValidate /\ [][NextValidate]_vars

\* The invariants of a set in the order the claim gives them.
IdHolds(o) == o.id = JStr(SetId)

TitleHolds(o) == o.title.t = "str" /\ strip(o.title.v) # <<>>

LengthHolds(o) == o.questions.t = "list" /\ Len(o.questions.v) = Len(LETTERS)

\* position for position; an entry that is no object has no letter and is
\* left to the per-entry type check
LetterSequenceHolds(o) ==
  \A i \in DOMAIN o.questions.v :
    o.questions.v[i].t = "dict" => o.questions.v[i].letter = JStr(LETTERS[i])

AnswerKey(e) == lower(normalize_for_letter_check(e.answer.v))

\* the first invariant entry k violates, OK when it violates none
EntryVerdict(qs, k) ==
  LET e == qs[k]
  IN  IF e.t # "dict" THEN ErrEntryObject
      ELSE IF e.letter.t # "str" \/ e.question.t # "str" \/ e.answer.t # "str"
        THEN ErrEntryTypes
      ELSE IF \E j \in 1..(k - 1) : AnswerKey(qs[j]) = AnswerKey(e)
        THEN ErrDuplicate
      ELSE IF enforce_letter_constraint(e.letter.v, e.question.v, e.answer.v) # OK
        THEN enforce_letter_constraint(e.letter.v, e.question.v, e.answer.v)
      ELSE enforce_answer_not_in_question(e.question.v, e.answer.v)

FirstViolated(o) ==
  IF ~IdHolds(o) THEN ErrId
  ELSE IF ~TitleHolds(o) THEN ErrTitle
  ELSE IF ~LengthHolds(o) THEN ErrLength
  ELSE IF ~LetterSequenceHolds(o) THEN ErrLetters
  ELSE LET qs  == o.questions.v
           bad == {k \in DOMAIN qs : EntryVerdict(qs, k) # OK}
       IN  IF bad = {} THEN OK
           ELSE EntryVerdict(qs, CHOOSE k \in bad : \A j \in bad : k <= j)

\* C10: validate_set raises the descriptive validation error of the first
\* violated invariant in the order id, title, questions length, letter
\* sequence, then per entry in list order: object with string fields,
\* duplicate answer, letter constraint, answer not in question; an entry that
\* is no object is reported by the per-entry type check; it returns without
\* error only if no invariant is violated.
C10_FailFast == vres # "" => vres = FirstViolated(vobj)

\* C10, for the sets all of whose entries are objects: the order holds.
C10_FailFastObjects ==
  ( /\ vres # ""
    /\ \A i \in DOMAIN vobj.questions.v : vobj.questions.v[i].t = "dict" ) =>
    vres = FirstViolated(vobj)

----------------------------------------------------------------------------
(* main: the repair loop                                                   *)

MAX_PASSES == 3

\* a faulty variant: it runs the loop one pass too far
LastPass_offbyone == MAX_PASSES + 1

\* the last value of range(1, MAX_PASSES + 1)
LastPass == MAX_PASSES

NoError == "None"

\* call_openai_json: an empty response, or text that is no JSON
ErrGenerate == "generator: empty response or invalid JSON"

\* call_openai_text / json.loads in ai_validate_or_fix
ErrFixer == "fixer: request failed or invalid JSON"

\* a second valid set, a set with a wrong id, a set whose first answer
\* stands in its question
FixedSet == [BaseSet EXCEPT !.title = JStr(Title \o <<" ", "1">>)]

BrokenSet == [BaseSet EXCEPT !.id = JStr(<<"s", "e", "t">>)]

LeakySet == WithEntry(BaseSet, 1, [BaseEntry(1) EXCEPT !.answer = JStr(<<"A">>)])

\* what json.loads may hand back from the generator's text
GenOutputs == {BaseSet, BrokenSet, None, JNotSet("list")}

\* what json.loads may hand back from the fixer's text
FixOutputs == {FixedSet, BrokenSet, LeakySet, None}

NewPass(o) ==
  [held |-> o, gen |-> 0, fix |-> 0, fixarg |-> None, fixed |-> None,
   cand |-> "", refix |-> "", err |-> ""]

Logged(f, v) == [passlog EXCEPT ![Len(passlog)][f] = v]

InitMain ==
  /\ mode = "main"
  /\ IdleNorm
  /\ IdleLetter
  /\ IdleValidate
  /\ pc = "for"
  /\ attempt = 0
  /\ obj = None
  /\ obj2 = None
  /\ last_err = NoError
  /\ err = ""
  /\ reason = ""
  /\ written = <<>>
  /\ calls = [gen |-> 0, fix |-> 0]
  /\ passlog = <<>>

Others == <<mode, nvars, lvars, vvars>>

\* for attempt in range(1, MAX_PASSES + 1): the next pass begins
ForNext ==
  /\ mode = "main" /\ pc = "for"
  /\ attempt < LastPass
  /\ attempt' = attempt + 1
  /\ passlog' = Append(passlog, NewPass(obj))
  /\ pc' = "try"
  /\ UNCHANGED <<Others, obj, obj2, last_err, err, reason, written, calls>>

\* the range is exhausted; attempt keeps its last value
ForExhausted ==
  /\ mode = "main" /\ pc = "for"
  /\ attempt >= LastPass
  /\ pc' = "after"
  /\ UNCHANGED <<Others, attempt, obj, obj2, last_err, err, reason, written,
                 calls, passlog>>

\* if obj is None
NeedsGenerate(o) == o = None

\* obj = generate_once(...) returns what json.loads made of the text
GenerateReturns ==
  /\ mode = "main" /\ pc = "try"
  /\ NeedsGenerate(obj)
  /\ \E v \in GenOutputs : obj' = v
  /\ calls' = [calls EXCEPT !.gen = @ + 1]
  /\ passlog' = Logged("gen", passlog[Len(passlog)].gen + 1)
  /\ pc' = "validate"
  /\ UNCHANGED <<Others, attempt, obj2, last_err, err, reason, written>>

\* generate_once(...) raises; obj is not assigned
GenerateRaises ==
  /\ mode = "main" /\ pc = "try"
  /\ NeedsGenerate(obj)
  /\ calls' = [calls EXCEPT !.gen = @ + 1]
  /\ passlog' = Logged("gen", passlog[Len(passlog)].gen + 1)
  /\ err' = ErrGenerate
  /\ pc' = "except"
  /\ UNCHANGED <<Others, attempt, obj, obj2, last_err, reason, written>>

\* obj is not None: the candidate of an earlier pass is kept
KeepCandidate ==
  /\ mode = "main" /\ pc = "try"
  /\ ~NeedsGenerate(obj)
  /\ pc' = "validate"
  /\ UNCHANGED <<Others, attempt, obj, obj2, last_err, err, reason, written,
                 calls, passlog>>

\* validate_set(obj)
ValidateCandidate ==
  /\ mode = "main" /\ pc = "validate"
  /\ LET r == validate_set(obj)
     IN  /\ passlog' = Logged("cand", r)
         /\ IF r = OK
              THEN pc' = "fix" /\ err' = err
              ELSE pc' = "except" /\ err' = r
  /\ UNCHANGED <<Others, attempt, obj, obj2, last_err, reason, written, calls>>

FixerCalled(result) ==
  [Logged("fix", passlog[Len(passlog)].fix + 1) EXCEPT
     ![Len(passlog)].fixarg = obj, ![Len(passlog)].fixed = result]

\* ai_validate_or_fix: the answer is "OK", the candidate itself comes back
FixUnchanged ==
  /\ mode = "main" /\ pc = "fix"
  /\ obj2' = obj
  /\ calls' = [calls EXCEPT !.fix = @ + 1]
  /\ passlog' = FixerCalled(obj)
  /\ pc' = "revalidate"
  /\ UNCHANGED <<Others, attempt, obj, last_err, err, reason, written>>

\* ai_validate_or_fix: json.loads(out) is the replacement
FixReplaces ==
  /\ mode = "main" /\ pc = "fix"
  /\ \E v \in FixOutputs :
       /\ obj2' = v
       /\ passlog' = FixerCalled(v)
  /\ calls' = [calls EXCEPT !.fix = @ + 1]
  /\ pc' = "revalidate"
  /\ UNCHANGED <<Others, attempt, obj, last_err, err, reason, written>>

\* ai_validate_or_fix raises; obj2 is not assigned
FixRaises ==
  /\ mode = "main" /\ pc = "fix"
  /\ calls' = [calls EXCEPT !.fix = @ + 1]
  /\ passlog' = [Logged("fix", passlog[Len(passlog)].fix + 1) EXCEPT
                   ![Len(passlog)].fixarg = obj]
  /\ err' = ErrFixer
  /\ pc' = "except"
  /\ UNCHANGED <<Others, attempt, obj, obj2, last_err, reason, written>>

\* validate_set(obj2); obj = obj2; break
ValidateFixed ==
  /\ mode = "main" /\ pc = "revalidate"
  /\ LET r == validate_set(obj2)
     IN  /\ passlog' = Logged("refix", r)
         /\ IF r = OK
              THEN pc' = "after" /\ obj' = obj2 /\ err' = err
              ELSE pc' = "except" /\ obj' = obj /\ err' = r
  /\ UNCHANGED <<Others, attempt, obj2, last_err, reason, written, calls>>

\* a faulty variant: it keeps the first error
Recorded_first(prev, e) == IF prev = NoError THEN e ELSE prev

\* last_err = e
Recorded(prev, e) == e

\* except Exception as e: with or without the continue, the next statement
\* is the for statement
Except ==
  /\ mode = "main" /\ pc = "except"
  /\ last_err' = Recorded(last_err, err)
  /\ passlog' = Logged("err", err)
  /\ err' = ""
  /\ pc' = "for"
  /\ UNCHANGED <<Others, attempt, obj, obj2, reason, written, calls>>

\* a faulty variant: it writes whatever candidate is left
FatalCondition_objonly(o, le, att) == o = None

\* if obj is None or (last_err is not None and attempt == MAX_PASSES)
FatalCondition(o, le, att) == o = None \/ (le # NoError /\ att = MAX_PASSES)

\* raise RuntimeError(f"Failed to generate a valid set ...: {last_err}")
Fail ==
  /\ mode = "main" /\ pc = "after"
  /\ FatalCondition(obj, last_err, attempt)
  /\ reason' = last_err
  /\ pc' = "failed"
  /\ UNCHANGED <<Others, attempt, obj, obj2, last_err, err, written, calls,
                 passlog>>

\* write_set(DEFAULT_SET_PATH, obj)
write_set ==
  /\ mode = "main" /\ pc = "after"
  /\ ~FatalCondition(obj, last_err, attempt)
  /\ written' = Append(written, obj)
  /\ pc' = "done"
  /\ UNCHANGED <<Others, attempt, obj, obj2, last_err, err, reason, calls,
                 passlog>>

Next ==
  \/ ForNext
  \/ ForExhausted
  \/ GenerateReturns
  \/ GenerateRaises
  \/ KeepCandidate
  \/ ValidateCandidate
  \/ FixUnchanged
  \/ FixReplaces
  \/ FixRaises
  \/ ValidateFixed
  \/ Except
  \/ Fail
  \/ write_set

Spec == InitMain /\ [][Next]_vars

Terminated == pc \in {"done", "failed"}

\* pass k has run to its end
PassOver(k) == k < Len(passlog) \/ pc \in {"for", "after", "done", "failed"}

\* pass k reached full success: the candidate passed validate_set, the fixer
\* returned and its result passed validate_set
FullSuccess(k) ==
  /\ passlog[k].cand = OK
  /\ passlog[k].fix = 1
  /\ passlog[k].refix = OK

\* C1: write_set is called at most once, and only with an object that the
\* fixer step returned and that passed validate_set after that fixer call in
\* the same pass; nothing that failed validate_set is persisted.
C1_WriteOnlyValidated ==
  /\ Len(written) <= 1
  /\ \A i \in DOMAIN written :
       /\ validate_set(written[i]) = OK
       /\ \E k \in DOMAIN passlog :
            /\ passlog[k].fix = 1
            /\ passlog[k].fixed = written[i]
            /\ passlog[k].refix = OK

\* the fixer's replacement is written in the second pass, after the first
\* pass ended in an error
C1_Witness ==
  /\ pc = "done"
  /\ written = <<FixedSet>>
  /\ Len(passlog) = 2
  /\ passlog[1].err # ""

\* C2: for every pass k in 1..MAX_PASSES, k = MAX_PASSES included and
\* whatever errors earlier passes recorded, full success in pass k ends the
\* run in DONE: the loop stops at pass k and the fixed set is written.
C2_CommitOnFirstSuccess ==
  \A k \in DOMAIN passlog :
    (Terminated /\ FullSuccess(k)) =>
      /\ pc = "done"
      /\ Len(passlog) = k
      /\ written = <<passlog[k].fixed>>

\* C3: a run in which no pass reaches full success makes exactly MAX_PASSES
\* passes and ends in the fatal failure, whose reason is the error recorded
\* in the last pass; write_set is not called; no run makes more than
\* MAX_PASSES passes.
C3_ExhaustionIsFatal ==
  /\ Len(passlog) <= MAX_PASSES
  /\ attempt <= MAX_PASSES
  /\ (Terminated /\ \A k \in DOMAIN passlog : ~FullSuccess(k)) =>
       /\ pc = "failed"
       /\ Len(passlog) = MAX_PASSES
       /\ passlog[MAX_PASSES].err # ""
       /\ reason = passlog[MAX_PASSES].err
       /\ written = <<>>

\* the generator failed in the first pass and returned a set with a wrong id
\* in the second
C3_Witness ==
  /\ pc = "failed"
  /\ obj = BrokenSet
  /\ passlog[1].err = ErrGenerate
  /\ reason = ErrId
  /\ calls.fix = 0

\* C4: when the generator's candidate fails validate_set in a pass
\* k < MAX_PASSES, a later pass calls the generator again.
C4_RetryGeneration ==
  \A k \in DOMAIN passlog :
    ( /\ Terminated
      /\ k < MAX_PASSES
      /\ passlog[k].gen = 1
      /\ passlog[k].cand \notin {"", OK} ) =>
      \E j \in DOMAIN passlog : j > k /\ passlog[j].gen = 1

\* C5: a pass that starts with a candidate held from an earlier failed pass
\* does not call the generator and sends that candidate through the fixer;
\* the generator is called only in a pass that starts without a candidate.
C5_HeldCandidateToFixer ==
  \A k \in DOMAIN passlog :
    PassOver(k) =>
      /\ passlog[k].held # None =>
           /\ passlog[k].gen = 0
           /\ passlog[k].fix = 1
           /\ passlog[k].fixarg = passlog[k].held
      /\ passlog[k].gen = 1 => passlog[k].held = None

\* C9: a run makes at most MAX_PASSES passes, at most one generator call and
\* one fixer call in each, and at most 2 * MAX_PASSES external calls.
C9_CallBound ==
  /\ Len(passlog) <= MAX_PASSES
  /\ \A k \in DOMAIN passlog : passlog[k].gen <= 1 /\ passlog[k].fix <= 1
  /\ calls.gen + calls.fix <= 2 * MAX_PASSES

\* every pass called the fixer, the first one the generator too
C9_Witness ==
  /\ Terminated
  /\ Len(passlog) = MAX_PASSES
  /\ calls.gen = 1
  /\ calls.fix = MAX_PASSES
  /\ \A k \in DOMAIN passlog : passlog[k].fix = 1

====
